---- MODULE Spec2Model ----
(***************************************************************************)
(* The family tree graph of famtree/core.py: FamilyTree objects holding    *)
(* an ordered people mapping, an ordered marriages mapping and a set of    *)
(* edges, with the Person and Marriage objects kept in a heap so that two  *)
(* trees can hold the same object (merge stores other's objects).          *)
(***************************************************************************)
EXTENDS Integers, Sequences, FiniteSets, TLC

\* Number of identifiers uuid4() hands out in one run.
MaxId == 3

\* An identifier that uuid4() never returned to this program.
Unknown == 0

\* The two FamilyTree objects of a run: the receiver and a second tree.
Trees == {"self", "other"}

\* Optional values: None is the empty set, a value v is {v}.
None == {}
Some(v) == {v}
Get(o) == CHOOSE v \in o : TRUE

\* Python truthiness of an optional int (None and 0 are falsy).
Truthy(o) == o # None /\ o # Some(0)

\* `a or b` on optional values.
Or(a, b) == IF Truthy(a) THEN a ELSE b

\* Gender (StrEnum).
MALE == "male"
FEMALE == "female"
GENDER_OTHER == "other"
Gender == {MALE, FEMALE, GENDER_OTHER}

\* Person(name, gender, birth_year, death_year)
Person(name, gender, birth_year, death_year) ==
    [name |-> name, gender |-> gender, birth_year |-> birth_year,
     death_year |-> death_year]

\* Marriage(children)
Marriage(children) == [children |-> children]

\* Edge(source, target); equality and hash are on the pair of fields.
Edge(source, target) == [source |-> source, target |-> target]

\* FamilyTree(): people and marriages are insertion-ordered dicts, kept as
\* sequences of <<key, object reference>>; edges is a set of Edge.
FamilyTree == [people |-> <<>>, marriages |-> <<>>, edges |-> {}]

---------------------------------------------------------------------------
\* dict helpers (insertion-ordered mappings)

Keys(d) == {d[i][1] : i \in DOMAIN d}
Values(d) == {d[i][2] : i \in DOMAIN d}
Has(d, k) == \E i \in DOMAIN d : d[i][1] = k
IndexOf(d, k) == CHOOSE i \in DOMAIN d : d[i][1] = k
At(d, k) == d[IndexOf(d, k)][2]

\* d[k] = v : an existing key keeps its position, a new key goes last.
DictSet(d, k, v) ==
    IF Has(d, k) THEN [d EXCEPT ![IndexOf(d, k)] = <<k, v>>]
    ELSE Append(d, <<k, v>>)

\* del d[k]
DictDel(d, k) == SelectSeq(d, LAMBDA e : e[1] # k)

\* {**a, **b}
RECURSIVE DictUpdate(_, _)
DictUpdate(a, b) ==
    IF b = <<>> THEN a
    ELSE DictUpdate(DictSet(a, b[1][1], b[1][2]), Tail(b))

\* A new object gets a reference no live object has: the identifier it is
\* stored under with the first free copy number.
NewRef(heap, id) ==
    LET free == {c \in 0..Cardinality(DOMAIN heap) : <<id, c>> \notin DOMAIN heap}
    IN  <<id, CHOOSE c \in free : \A q \in free : c <= q>>

\* heap with one more object
Alloc(heap, r, obj) == [x \in DOMAIN heap \cup {r} |-> IF x = r THEN obj ELSE heap[x]]

\* Drop the objects no tree refers to any more (reference counting).
Collect(trees, heap, field) ==
    LET live == UNION {Values(trees[t][field]) : t \in Trees}
    IN  [r \in DOMAIN heap \cap live |-> heap[r]]

---------------------------------------------------------------------------
\* The program's memory W: the trees, the Person objects P and the Marriage
\* objects M.  An operation yields the new memory with its return value
\* (ret), its outcome (err) and the number of uuid4() calls it made (drawn).

Result(trees, P, M, ret, err, drawn) ==
    [trees |-> trees, P |-> Collect(trees, P, "people"),
     M |-> Collect(trees, M, "marriages"),
     ret |-> ret, err |-> err, drawn |-> drawn]

Raise(W, err) == Result(W.trees, W.P, W.M, None, err, 0)

\* FamilyTree.nodes: {**self.people, **self.marriages}
nodes(T) == DictUpdate(T.people, T.marriages)

\* isinstance(node, Marriage) for the node stored under entry i of nodes
IsMarriage(T, i) == Has(T.marriages, nodes(T)[i][1])

\* adjacency_list of FamilyTree.connected, as a set of undirected links
adjacency_list(W, T) ==
    LET ns == nodes(T)
        fromEdges == UNION {{<<e.source, e.target>>, <<e.target, e.source>>} : e \in T.edges}
        fromChildren ==
            UNION {UNION {{<<ns[i][1], W.M[ns[i][2]].children[c]>>,
                           <<W.M[ns[i][2]].children[c], ns[i][1]>>} :
                          c \in DOMAIN W.M[ns[i][2]].children} :
                   i \in {j \in DOMAIN ns : IsMarriage(T, j)}}
    IN  fromEdges \cup fromChildren

\* dfs: the set visited once the traversal from the given nodes has ended
RECURSIVE dfs(_, _)
dfs(adj, visited) ==
    LET more == {p[2] : p \in {q \in adj : q[1] \in visited}} \ visited
    IN  IF more = {} THEN visited ELSE dfs(adj, visited \cup more)

\* The set of ids the traversal of FamilyTree.connected visits from a start.
visitedFrom(W, T, start_node_id) == dfs(adjacency_list(W, T), {start_node_id})

\* The final comparison of FamilyTree.connected
AllVisited(visited, ns) == Cardinality(visited) = Len(ns)

\* FamilyTree.connected
connected(W, t) ==
    LET T == W.trees[t]
        ns == nodes(T)
    IN  IF ns = <<>> THEN TRUE
        ELSE AllVisited(visitedFrom(W, T, ns[1][1]), ns)

---------------------------------------------------------------------------
\* FamilyTree.sort

\* Names in str order.
Names == <<"a", "b">>
NameRank(name) == CHOOSE i \in DOMAIN Names : Names[i] = name

\* bool as int: False < True
BoolInt(b) == IF b THEN 1 ELSE 0

\* (a key without the gender)
SortKey_NoGender(person) == <<person.birth_year, NameRank(person.name)>>

\* key=lambda item: (gender != MALE, gender != FEMALE, birth_year, name)
SortKey(person) ==
    <<BoolInt(person.gender # MALE), BoolInt(person.gender # FEMALE),
      person.birth_year, NameRank(person.name)>>

\* tuple comparison k1 < k2
RECURSIVE TupleLess(_, _)
TupleLess(k1, k2) ==
    IF k1 = <<>> \/ k2 = <<>> THEN k1 = <<>> /\ k2 # <<>>
    ELSE IF k1[1] # k2[1] THEN k1[1] < k2[1]
    ELSE TupleLess(Tail(k1), Tail(k2))

\* sorted(items, key): stable, an item goes after the items not above it
RECURSIVE sorted(_, _)
sorted(items, P) ==
    IF items = <<>> THEN <<>>
    ELSE LET n == Len(items)
             last_item == items[n]
             front == sorted(SubSeq(items, 1, n - 1), P)
             keep == {i \in DOMAIN front :
                        ~TupleLess(SortKey(P[last_item[2]]), SortKey(P[front[i][2]]))}
             k == Cardinality(keep)
         IN  SubSeq(front, 1, k) \o <<last_item>> \o SubSeq(front, k + 1, Len(front))

\* (a new tree made of the sorted people alone)
sort_Rebuilt(W, t) ==
    LET sorted_people == sorted(W.trees[t].people, W.P)
    IN  Result([W.trees EXCEPT ![t] = [FamilyTree EXCEPT !.people = sorted_people]],
               W.P, W.M, None, "ok", 0)

sort(W, t) ==
    LET T == W.trees[t]
        sorted_people == sorted(T.people, W.P)
    IN  Result([W.trees EXCEPT ![t].people = sorted_people], W.P, W.M, None, "ok", 0)

---------------------------------------------------------------------------
\* FamilyTree.create_person

\* (a comparison that leaves the death year out)
SamePerson_NoDeathYear(person, name, gender, birth_year, death_year) ==
    /\ person.name = name
    /\ person.gender = gender
    /\ person.birth_year = birth_year

\* the comparison of create_person's loop
SamePerson(person, name, gender, birth_year, death_year) ==
    /\ person.name = name
    /\ person.gender = gender
    /\ person.birth_year = birth_year
    /\ person.death_year = death_year

create_person(W, t, uuid, name, gender, birth_year, death_year) ==
    LET people == W.trees[t].people
        found == {i \in DOMAIN people :
                    SamePerson(W.P[people[i][2]], name, gender, birth_year, death_year)}
    IN  IF found # {}
        THEN LET i == CHOOSE j \in found : \A k \in found : j <= k
             IN  Result(W.trees, W.P, W.M, Some(people[i]), "ok", 0)
        ELSE LET ref == NewRef(W.P, uuid)
                 P2 == Alloc(W.P, ref, Person(name, gender, birth_year, death_year))
             IN  Result([W.trees EXCEPT ![t].people = DictSet(people, uuid, ref)],
                        P2, W.M, Some(<<uuid, ref>>), "ok", 1)

---------------------------------------------------------------------------
\* FamilyTree.update_person

\* (every argument given is stored, zero included, and an absent death year
\* clears the field)
Updated_Overwrite(person, gender, birth_year, death_year) ==
    [person EXCEPT
        !.gender = IF gender # None THEN Get(gender) ELSE @,
        !.birth_year = IF birth_year # None THEN Get(birth_year) ELSE @,
        !.death_year = death_year]

\* the three assignments `person.x = x or person.x`
Updated(person, gender, birth_year, death_year) ==
    [person EXCEPT
        !.gender = IF gender # None THEN Get(gender) ELSE @,
        !.birth_year = IF Truthy(birth_year) THEN Get(birth_year) ELSE @,
        !.death_year = Or(death_year, @)]

\* (several people of one name: the first one is taken)
update_person_FirstMatch(W, t, name, gender, birth_year, death_year, person_id) ==
    LET people == W.trees[t].people
        matches == SelectSeq(people, LAMBDA e : W.P[e[2]].name = name)
        change(e) ==
            Result(W.trees,
                   [W.P EXCEPT ![e[2]] = Updated(@, gender, birth_year, death_year)],
                   W.M, Some(e), "ok", 0)
    IN  IF person_id # None
        THEN IF Has(people, Get(person_id))
             THEN change(people[IndexOf(people, Get(person_id))])
             ELSE Raise(W, "KeyError")
        ELSE IF matches = <<>> THEN Raise(W, "Person not found")
        ELSE change(matches[1])

update_person(W, t, name, gender, birth_year, death_year, person_id) ==
    LET people == W.trees[t].people
        matches == SelectSeq(people, LAMBDA e : W.P[e[2]].name = name)
        change(e) ==
            Result(W.trees,
                   [W.P EXCEPT ![e[2]] = Updated(@, gender, birth_year, death_year)],
                   W.M, Some(e), "ok", 0)
    IN  IF person_id # None
        THEN IF Has(people, Get(person_id))
             THEN change(people[IndexOf(people, Get(person_id))])
             ELSE Raise(W, "KeyError")
        ELSE IF matches = <<>> THEN Raise(W, "Person not found")
        ELSE IF Len(matches) > 1 THEN Raise(W, "Multiple people found")
        ELSE change(matches[1])

---------------------------------------------------------------------------
\* FamilyTree.create_marriage, FamilyTree.update_marriage

\* `children or []`
OrEmpty(children) == IF children = None THEN <<>> ELSE Get(children)

\* (edges stored marriage -> spouse)
create_marriage_Reversed(W, t, uuid, spouse1_id, spouse2_id, children) ==
    LET T == W.trees[t]
        ref == NewRef(W.M, uuid)
        M2 == Alloc(W.M, ref, Marriage(OrEmpty(children)))
        T2 == [T EXCEPT !.marriages = DictSet(@, uuid, ref),
                        !.edges = @ \cup {Edge(uuid, spouse1_id), Edge(uuid, spouse2_id)}]
    IN  Result([W.trees EXCEPT ![t] = T2], W.P, M2, Some(<<uuid, ref>>), "ok", 1)

\* (a marriage the two spouses already share is returned instead)
create_marriage_Dedup(W, t, uuid, spouse1_id, spouse2_id, children) ==
    LET T == W.trees[t]
        shared == {i \in DOMAIN T.marriages :
                     /\ Edge(spouse1_id, T.marriages[i][1]) \in T.edges
                     /\ Edge(spouse2_id, T.marriages[i][1]) \in T.edges}
        ref == NewRef(W.M, uuid)
        M2 == Alloc(W.M, ref, Marriage(OrEmpty(children)))
        T2 == [T EXCEPT !.marriages = DictSet(@, uuid, ref),
                        !.edges = @ \cup {Edge(spouse1_id, uuid), Edge(spouse2_id, uuid)}]
    IN  IF shared # {}
        THEN Result(W.trees, W.P, W.M,
                    Some(T.marriages[CHOOSE i \in shared : TRUE]), "ok", 0)
        ELSE Result([W.trees EXCEPT ![t] = T2], W.P, M2, Some(<<uuid, ref>>), "ok", 1)

create_marriage(W, t, uuid, spouse1_id, spouse2_id, children) ==
    LET T == W.trees[t]
        ref == NewRef(W.M, uuid)
        M2 == Alloc(W.M, ref, Marriage(OrEmpty(children)))
        T2 == [T EXCEPT !.marriages = DictSet(@, uuid, ref),
                        !.edges = @ \cup {Edge(spouse1_id, uuid), Edge(spouse2_id, uuid)}]
    IN  Result([W.trees EXCEPT ![t] = T2], W.P, M2, Some(<<uuid, ref>>), "ok", 1)

\* [edge.target for edge in self.edges
\*  if edge.source == spouse_id and edge.target in self.marriages]
spouse_marriages(T, spouse_id) ==
    {e.target : e \in {x \in T.edges : x.source = spouse_id /\ Has(T.marriages, x.target)}}

\* (a match only when the marriage of this round is the common one)
matched_marriage_ThisRound(T, marriage, spouse1_id, spouse2_id) ==
    IF marriage[1] \in spouse_marriages(T, spouse1_id) \cap spouse_marriages(T, spouse2_id)
    THEN Some(marriage) ELSE None

\* (a match as soon as either spouse has a marriage)
matched_marriage_Either(T, marriage, spouse1_id, spouse2_id) ==
    IF spouse_marriages(T, spouse1_id) \cup spouse_marriages(T, spouse2_id) # {}
    THEN Some(marriage) ELSE None

\* next((marriage for marriage_id in spouse1_marriages
\*       if marriage_id in spouse2_marriages), None)
\* where marriage is the variable of the enclosing loop over the marriages
matched_marriage(T, marriage, spouse1_id, spouse2_id) ==
    IF spouse_marriages(T, spouse1_id) \cap spouse_marriages(T, spouse2_id) # {}
    THEN Some(marriage) ELSE None

update_marriage(W, t, spouse1_id, spouse2_id, children) ==
    LET T == W.trees[t]
    IN  IF T.marriages = <<>> THEN Result(W.trees, W.P, W.M, None, "ok", 0)
        ELSE \* the body of the loop returns in its first round
             LET m == matched_marriage(T, T.marriages[1], spouse1_id, spouse2_id)
             IN  IF m # None
                 THEN Result(W.trees, W.P,
                             [W.M EXCEPT ![Get(m)[2]].children = OrEmpty(children)],
                             m, "ok", 0)
                 ELSE Result(W.trees, W.P, W.M, None, "ok", 0)

---------------------------------------------------------------------------
\* FamilyTree.delete_node

\* (a filter on the source alone)
KeptEdges_SourceOnly(edges, node_id) == {e \in edges : node_id # e.source}

\* the edges delete_node keeps
KeptEdges(edges, node_id) ==
    {e \in edges : node_id # e.source /\ node_id # e.target}

\* (children lists left as they are)
KeptChildren_Unpruned(children, node_id) == children

\* (the list is walked from its end)
KeptChildren_Reversed(children, node_id) ==
    LET kept == SelectSeq(children, LAMBDA child : child # node_id)
    IN  [i \in DOMAIN kept |-> kept[Len(kept) + 1 - i]]

\* the children delete_node keeps
KeptChildren(children, node_id) == SelectSeq(children, LAMBDA child : child # node_id)

\* (a lookup that never fails)
IsNode_Always(T, node_id) == TRUE

\* node_id in self.people, or node_id in self.marriages
IsNode(T, node_id) == Has(T.people, node_id) \/ Has(T.marriages, node_id)

delete_node(W, t, node_id) ==
    LET T == W.trees[t]
        T1 == IF Has(T.people, node_id)
              THEN [T EXCEPT !.people = DictDel(@, node_id)]
              ELSE [T EXCEPT !.marriages = DictDel(@, node_id)]
        T2 == [T1 EXCEPT !.edges = KeptEdges(@, node_id)]
        rest == Values(T2.marriages)
        M2 == [r \in DOMAIN W.M |->
                 IF r \in rest
                 THEN [W.M[r] EXCEPT !.children = KeptChildren(@, node_id)]
                 ELSE W.M[r]]
    IN  IF ~IsNode(T, node_id)
        THEN Raise(W, "Node not found")
        ELSE Result([W.trees EXCEPT ![t] = T2], W.P, M2, None, "ok", 0)

---------------------------------------------------------------------------
\* FamilyTree.merge

\* self.edges.update(other.edges)
EdgesUpdate(mine, theirs) == mine \cup theirs

\* (keys the receiver holds keep the receiver's object)
MergeDict_KeepMine(mine, theirs) ==
    DictUpdate(mine, SelectSeq(theirs, LAMBDA e : ~Has(mine, e[1])))

\* (entries added without looking the key up)
MergeDict_Append(mine, theirs) == mine \o theirs

\* for key, value in theirs.items(): mine[key] = value
MergeDict(mine, theirs) == DictUpdate(mine, theirs)

merge(W, t, other) ==
    LET T == W.trees[t]
        O == W.trees[other]
        T2 == [people |-> MergeDict(T.people, O.people),
               marriages |-> MergeDict(T.marriages, O.marriages),
               edges |-> EdgesUpdate(T.edges, O.edges)]
    IN  Result([W.trees EXCEPT ![t] = T2], W.P, W.M, None, "ok", 0)

---------------------------------------------------------------------------
\* The snapshot: TypeAdapter(FamilyTree).dump_json and validate_json

\* str(uuid) and UUID(text)
UuidStr(id) == <<"uuid", id>>
UuidParse(text) == text[2]

StrSeq(ids) == [i \in DOMAIN ids |-> UuidStr(ids[i])]
ParseSeq(texts) == [i \in DOMAIN texts |-> UuidParse(texts[i])]

\* dump_json(tree): the document with its three fields
dump_json(W, t) ==
    LET T == W.trees[t]
    IN  [people |-> [i \in DOMAIN T.people |->
                        <<UuidStr(T.people[i][1]), W.P[T.people[i][2]]>>],
         marriages |-> [i \in DOMAIN T.marriages |->
                        <<UuidStr(T.marriages[i][1]),
                          [children |-> StrSeq(W.M[T.marriages[i][2]].children)]>>],
         edges |-> {[source |-> UuidStr(e.source), target |-> UuidStr(e.target)] :
                    e \in T.edges}]

\* (a death year is not read back)
FromJson_NoDeathYear(field, j) ==
    IF field = "people" THEN Person(j.name, j.gender, j.birth_year, None)
    ELSE Marriage(ParseSeq(j.children))

\* the object validate_json builds from one document entry
FromJson(field, j) ==
    IF field = "people" THEN Person(j.name, j.gender, j.birth_year, j.death_year)
    ELSE Marriage(ParseSeq(j.children))

\* the objects validate_json builds for the entries of one mapping
RECURSIVE Build(_, _, _, _)
Build(entries, heap, made, field) ==
    IF entries = <<>> THEN [heap |-> heap, dict |-> made]
    ELSE LET ref == NewRef(heap, UuidParse(entries[1][1]))
         IN  Build(Tail(entries), Alloc(heap, ref, FromJson(field, entries[1][2])),
                   DictSet(made, UuidParse(entries[1][1]), ref), field)

\* tree = validate_json(doc), the new tree bound to the name t
validate_json(W, t, doc) ==
    LET \* the tree t named before is dropped first
        W0 == Result([W.trees EXCEPT ![t] = FamilyTree], W.P, W.M, None, "ok", 0)
        ps == Build(doc.people, W0.P, <<>>, "people")
        ms == Build(doc.marriages, W0.M, <<>>, "marriages")
        T2 == [people |-> ps.dict, marriages |-> ms.dict,
               edges |-> {Edge(UuidParse(j.source), UuidParse(j.target)) : j \in doc.edges}]
    IN  Result([W.trees EXCEPT ![t] = T2], ps.heap, ms.heap, None, "ok", 0)

---------------------------------------------------------------------------
\* State

VARIABLES
    trees,      \* the FamilyTree objects, by name
    P,          \* the Person objects, by reference
    M,          \* the Marriage objects, by reference
    nextId,     \* the next identifier uuid4() returns
    last,       \* the last call: operation, tree, identifier named, result, outcome
    calls       \* the number of calls made so far

vars == <<trees, P, M, nextId, last, calls>>

\* the memory of the current state
World == [trees |-> trees, P |-> P, M |-> M]

\* the memory an operation leaves
After(r) == [trees |-> r.trees, P |-> r.P, M |-> r.M]

\* The record of a call.  args holds the one identifier (or tree) the call
\* names; the fields, spouses and children given are read off the result.
Call(op, t, args, r) == [op |-> op, tree |-> t, args |-> args, ret |-> r.ret, err |-> r.err]

\* the state after a call with result r
Commit(op, t, args, r) ==
    /\ trees' = r.trees
    /\ P' = r.P
    /\ M' = r.M
    /\ nextId' = nextId + r.drawn
    /\ last' = Call(op, t, args, r)

Init ==
    /\ trees = [t \in Trees |-> FamilyTree]
    /\ P = <<>>
    /\ M = <<>>
    /\ nextId = 1
    /\ last = [op |-> "init", tree |-> "self", args |-> <<>>, ret |-> None, err |-> "ok"]
    /\ calls = 0

---------------------------------------------------------------------------
\* Inputs

\* the people a caller creates
PersonArgs ==
    {<<"a", MALE, 1950, None>>, <<"a", MALE, 1950, Some(1990)>>,
     <<"b", FEMALE, 1952, None>>}

\* the (gender, birth_year, death_year) a caller gives to update_person
UpdateArgs ==
    {<<Some(GENDER_OTHER), Some(0), None>>, <<None, Some(1952), Some(1990)>>}

\* the (name, person_id) a caller gives to update_person: an identifier
\* (the name is not read then), or a name alone
ById(ids) == {<<Names[1], Some(i)>> : i \in ids}
ByName == {<<Names[i], None>> : i \in DOMAIN Names}

\* identifiers a caller can hold: those drawn so far and one never drawn
AnyId == (1..(nextId - 1)) \cup {Unknown}

\* Longest children list a caller gives.
MaxChildren == 1

\* lists without repetition of at most MaxChildren of the given ids
ChildLists(ids) ==
    {c \in UNION {[1..n -> ids] : n \in 1..MaxChildren} :
        \A i, j \in DOMAIN c : i # j => c[i] # c[j]}

\* the children argument: absent, or a list
ChildrenArgs(ids) == {None} \cup {Some(c) : c \in ChildLists(ids)}

---------------------------------------------------------------------------
\* Actions: one call of a method on tree t.  ids is the set of identifiers
\* the caller draws its spouse and child arguments from, keys the set of
\* (name, person_id) it names a person with.

CreatePerson(t) ==
    /\ nextId <= MaxId
    /\ \E a \in PersonArgs :
        Commit("create_person", t, <<>>,
               create_person(World, t, nextId, a[1], a[2], a[3], a[4]))

UpdatePerson(t, keys) ==
    \E k \in keys, u \in UpdateArgs :
        Commit("update_person", t, <<>>,
               update_person(World, t, k[1], u[1], u[2], u[3], k[2]))

CreateMarriage(t, ids) ==
    /\ nextId <= MaxId
    /\ \E s1 \in ids, s2 \in ids, children \in ChildrenArgs(ids) :
        Commit("create_marriage", t, <<>>,
               create_marriage(World, t, nextId, s1, s2, children))

UpdateMarriage(t, ids) ==
    \E s1 \in ids, s2 \in ids, children \in ChildrenArgs(ids) :
        Commit("update_marriage", t, <<>>,
               update_marriage(World, t, s1, s2, children))

DeleteNode(t) ==
    \E node_id \in AnyId :
        Commit("delete_node", t, <<node_id>>, delete_node(World, t, node_id))

Sort(t) == Commit("sort", t, <<>>, sort(World, t))

Merge(t) == \E other \in Trees : Commit("merge", t, <<other>>, merge(World, t, other))

\* app.py: tree = validate_json(an exported snapshot)
Upload(t) ==
    \E from \in Trees :
        Commit("validate_json", t, <<from>>, validate_json(World, t, dump_json(World, from)))

\* identifiers a caller names as a person: the people of tree t, and one
\* identifier that resolves to nothing
PersonIds(t) == Keys(trees[t].people) \cup {Unknown}

\* Number of calls in a run on one tree.
MaxCalls == 4

\* Number of calls in a run on two trees.
MaxMergeCalls == 5

\* one call of a run of at most max calls
Within(max, call) == calls < max /\ calls' = calls + 1 /\ call

\* Any calls on one tree, also with identifiers that do not resolve.
Next ==
    \/ Within(MaxCalls, CreatePerson("self"))
    \/ Within(MaxCalls, UpdatePerson("self", ById(PersonIds("self")) \cup ByName))
    \/ Within(MaxCalls, CreateMarriage("self", PersonIds("self")))
    \/ Within(MaxCalls, UpdateMarriage("self", PersonIds("self")))
    \/ Within(MaxCalls, DeleteNode("self"))
    \/ Within(MaxCalls, Sort("self"))

Spec == Init /\ [][Next]_vars

\* One tree edited through its methods, spouse and child identifiers
\* always those of people the tree holds at the call.
NextValid ==
    \/ Within(MaxCalls, CreatePerson("self"))
    \/ Within(MaxCalls, UpdatePerson("self", ById(Keys(trees["self"].people)) \cup ByName))
    \/ Within(MaxCalls, CreateMarriage("self", Keys(trees["self"].people)))
    \/ Within(MaxCalls, UpdateMarriage("self", Keys(trees["self"].people)))
    \/ Within(MaxCalls, DeleteNode("self"))
    \/ Within(MaxCalls, Sort("self"))

SpecValid == Init /\ [][NextValid]_vars

\* One tree whose structure alone is edited: people and marriages are made,
\* children lists replaced and nodes deleted, also with identifiers that do
\* not resolve; no person's fields and no order is changed.
NextGraph ==
    \/ Within(MaxCalls, CreatePerson("self"))
    \/ Within(MaxCalls, CreateMarriage("self", PersonIds("self")))
    \/ Within(MaxCalls, UpdateMarriage("self", PersonIds("self")))
    \/ Within(MaxCalls, DeleteNode("self"))

SpecGraph == Init /\ [][NextGraph]_vars

\* One tree edited through its methods, also with spouse and child
\* identifiers that do not resolve, and exported at any time to a snapshot
\* that is loaded as the second tree.
NextSnapshot ==
    \/ Within(MaxCalls, CreatePerson("self"))
    \/ Within(MaxCalls, UpdatePerson("self", ById(Keys(trees["self"].people))))
    \/ Within(MaxCalls, CreateMarriage("self", PersonIds("self")))
    \/ Within(MaxCalls, DeleteNode("self"))
    \/ Within(MaxCalls, Sort("self"))
    \/ Within(MaxCalls, Upload("other"))

SpecSnapshot == Init /\ [][NextSnapshot]_vars

\* Two trees: the second is loaded from a snapshot exported by the first,
\* both are edited, and either is merged into the other.
NextMerge ==
    \/ Within(MaxMergeCalls, CreatePerson("self"))
    \/ Within(MaxMergeCalls, CreateMarriage("self", Keys(trees["self"].people)))
    \/ Within(MaxMergeCalls, Upload("other"))
    \/ \E t \in Trees :
        \/ Within(MaxMergeCalls, UpdatePerson(t, ById(Keys(trees[t].people))))
        \/ Within(MaxMergeCalls, DeleteNode(t))
        \/ Within(MaxMergeCalls, Merge(t))

SpecMerge == Init /\ [][NextMerge]_vars

---------------------------------------------------------------------------
\* Properties

\* the tree the one-tree specifications edit
Self == trees["self"]

\* the person fields a tree holds under an identifier
PersonOf(W, t, id) == W.P[At(W.trees[t].people, id)]

\* C1: in any reachable state, create_person(n, g, b, d) called twice with
\* the same arguments returns the same person both times, the second call
\* changes nothing, and over the two calls the people mapping gains one
\* entry exactly when no person with those four fields was there before.
C1_CreatePersonIdempotent ==
    \A a \in PersonArgs :
        LET r1 == create_person(World, "self", nextId, a[1], a[2], a[3], a[4])
            r2 == create_person(After(r1), "self", nextId + r1.drawn, a[1], a[2], a[3], a[4])
            before == \E i \in DOMAIN Self.people :
                         P[Self.people[i][2]] = Person(a[1], a[2], a[3], a[4])
        IN  /\ r1.ret # None
            /\ r2.ret = r1.ret
            /\ After(r2) = After(r1)
            /\ r2.drawn = 0
            /\ Len(r2.trees["self"].people) - Len(Self.people) = IF before THEN 0 ELSE 1

\* C1 witness: create_person has just added a person beside another one,
\* and a second call with the same fields finds it.
C1_Witness ==
    /\ last.op = "create_person"
    /\ last.ret # None
    /\ Len(Self.people) >= 2
    /\ Get(last.ret) = Self.people[Len(Self.people)]
    /\ LET p == P[Get(last.ret)[2]]
       IN  create_person(World, "self", nextId, p.name, p.gender, p.birth_year,
                         p.death_year).ret = last.ret

\* C2: after a successful delete_node(X), X is in neither people nor
\* marriages, no edge has X as source or target, and no remaining
\* marriage's children list contains X.
C2_DeleteCascades ==
    (last.op = "delete_node" /\ last.err = "ok") =>
        LET X == last.args[1]
            T == trees[last.tree]
        IN  /\ ~Has(T.people, X)
            /\ ~Has(T.marriages, X)
            /\ \A e \in T.edges : e.source # X /\ e.target # X
            /\ \A i \in DOMAIN T.marriages :
                 \A c \in DOMAIN M[T.marriages[i][2]].children :
                    M[T.marriages[i][2]].children[c] # X

\* C2 witness: a node was deleted from a tree that still holds a marriage
\* that lost every edge, beside a person.
C2_Witness ==
    /\ last.op = "delete_node"
    /\ last.err = "ok"
    /\ Self.people # <<>>
    /\ \E i \in DOMAIN Self.marriages :
         \A e \in Self.edges : e.target # Self.marriages[i][1]

\* has marriage id an edge from the spouse?
HasEdgeFrom(T, spouse_id, marriage_id) == Edge(spouse_id, marriage_id) \in T.edges

\* C3: when update_marriage(s1, s2, children) finds a common marriage, the
\* marriage it returns, whose children list it replaces, has an edge from
\* s1 and an edge from s2, and its children list is then the given list.
C3_UpdatesTheCommonMarriage ==
    \A s1 \in PersonIds("self"), s2 \in PersonIds("self"),
       children \in ChildrenArgs(PersonIds("self")) :
        LET r == update_marriage(World, "self", s1, s2, children)
        IN  r.ret # None =>
              LET m == Get(r.ret)
              IN  /\ HasEdgeFrom(Self, s1, m[1])
                  /\ HasEdgeFrom(Self, s2, m[1])
                  /\ r.M[m[2]].children = OrEmpty(children)

\* the identifiers of the nodes of a tree
NodeIds(T) == Keys(nodes(T))

\* C4: connected is true iff the set of ids its traversal reaches from the
\* start node equals the node set people + marriages, or there is no node.
C4_ConnectedIffAllReached ==
    connected(World, "self") =
        \/ nodes(Self) = <<>>
        \/ visitedFrom(World, Self, nodes(Self)[1][1]) = NodeIds(Self)

\* the orders a mapping of these entries can have
Orders(d) ==
    {[i \in DOMAIN d |-> d[f[i]]] :
        f \in {g \in [DOMAIN d -> DOMAIN d] : \A i, j \in DOMAIN d : g[i] = g[j] => i = j}}

\* C5: the result of connected is the same for every iteration order of the
\* people mapping, the content of people, marriages and edges being equal.
C5_ConnectedWhateverTheOrder ==
    \A order \in Orders(Self.people) :
        connected([World EXCEPT !.trees["self"].people = order], "self")
            = connected(World, "self")

\* C6: with spouse and child ids always those of existing people, every
\* edge's source and target are nodes of the tree and every id in a
\* marriage's children list is a person of the tree.
C6_NoDanglingReference ==
    /\ \A e \in Self.edges : e.source \in NodeIds(Self) /\ e.target \in NodeIds(Self)
    /\ \A i \in DOMAIN Self.marriages :
         \A c \in DOMAIN M[Self.marriages[i][2]].children :
            Has(Self.people, M[Self.marriages[i][2]].children[c])

\* C6 witness: a node was deleted from a tree that keeps an edge and a
\* marriage with a child.
C6_Witness ==
    /\ last.op = "delete_node"
    /\ last.err = "ok"
    /\ Self.edges # {}
    /\ \E i \in DOMAIN Self.marriages : M[Self.marriages[i][2]].children # <<>>

\* the sources of the edges that point to a node
SourcesOf(T, id) == {e.source : e \in {x \in T.edges : x.target = id}}

\* C7 (as claimed): every marriage has edges pointing to it from exactly
\* two person nodes.
C7_ExactlyTwoSpouses ==
    \A i \in DOMAIN Self.marriages :
        /\ Cardinality(SourcesOf(Self, Self.marriages[i][1])) = 2
        /\ SourcesOf(Self, Self.marriages[i][1]) \subseteq Keys(Self.people)

\* C7 (amended): every marriage has edges pointing to it from at most two
\* person nodes, and a marriage just created by create_marriage(s1, s2)
\* with two different people has them from exactly these two.
C7_AtMostTwoSpouses ==
    /\ \A i \in DOMAIN Self.marriages :
         /\ Cardinality(SourcesOf(Self, Self.marriages[i][1])) <= 2
         /\ SourcesOf(Self, Self.marriages[i][1]) \subseteq Keys(Self.people)
    /\ \A s1 \in Keys(Self.people), s2 \in Keys(Self.people) :
         LET r == create_marriage(World, "self", nextId, s1, s2, None)
         IN  SourcesOf(r.trees["self"], Get(r.ret)[1]) = {s1, s2}

\* C7 witness: create_marriage has just made a marriage with two spouses.
C7_Witness ==
    /\ last.op = "create_marriage"
    /\ Cardinality(SourcesOf(Self, Get(last.ret)[1])) = 2

\* C8: after receiver.merge(other), for every identifier of other's people
\* and marriages the receiver holds other's version, every identifier only
\* the receiver had keeps its record, no other identifier appears, and the
\* receiver's edges are the union of both edge sets, equal pairs counted once.
C8_MergeLastWriteWins ==
    \A t \in Trees, o \in Trees :
        LET T == trees[t]
            O == trees[o]
            r == merge(World, t, o)
            R == r.trees[t]
            ok(f, heapBefore, heapAfter) ==
                /\ Keys(R[f]) = Keys(T[f]) \cup Keys(O[f])
                /\ Len(R[f]) = Cardinality(Keys(R[f]))
                /\ \A id \in Keys(O[f]) :
                     /\ At(R[f], id) = At(O[f], id)
                     /\ heapAfter[At(R[f], id)] = heapBefore[At(O[f], id)]
                /\ \A id \in Keys(T[f]) \ Keys(O[f]) :
                     /\ At(R[f], id) = At(T[f], id)
                     /\ heapAfter[At(R[f], id)] = heapBefore[At(T[f], id)]
        IN  /\ r.err = "ok"
            /\ ok("people", P, r.P)
            /\ ok("marriages", M, r.M)
            /\ \A e \in R.edges : e \in T.edges \/ e \in O.edges
            /\ \A e \in T.edges \cup O.edges : e \in R.edges
            /\ Cardinality(R.edges) =
                 Cardinality({<<e.source, e.target>> : e \in T.edges \cup O.edges})

\* C8 witness: the two trees to merge hold different versions of a person
\* under one identifier, the first tree has an identifier the second has
\* not, and both hold an equal edge.
C8_Witness ==
    /\ \E id \in Keys(trees["self"].people) \cap Keys(trees["other"].people) :
         PersonOf(World, "self", id) # PersonOf(World, "other", id)
    /\ Keys(nodes(trees["self"])) \ Keys(nodes(trees["other"])) # {}
    /\ trees["self"].edges \cap trees["other"].edges # {}

\* C9: merging the same tree into a receiver twice in a row gives the same
\* people, marriages and edges as merging it once, and merging a tree into
\* itself leaves its people, marriages and edges as they were.
C9_MergeIdempotent ==
    \A t \in Trees, o \in Trees :
        LET once == merge(World, t, o)
            twice == merge(After(once), t, o)
        IN  /\ After(twice) = After(once)
            /\ After(merge(World, t, t)) = World

\* C9 witness: the second tree, which holds people and edges, has just
\* been merged into the first, which also holds a node of its own.
C9_Witness ==
    /\ last.op = "merge"
    /\ last.tree = "self"
    /\ last.args = <<"other">>
    /\ trees["other"].people # <<>>
    /\ trees["other"].edges # {}
    /\ Keys(nodes(trees["self"])) \ Keys(nodes(trees["other"])) # {}

\* C10: delete_node(id) with an id that is neither a person nor a marriage
\* fails with "Node not found" and changes nothing; after a successful
\* delete_node(X), a second delete_node(X) fails so.
C10_DeleteNotFound ==
    \A X \in AnyId :
        LET r == delete_node(World, "self", X)
        IN  /\ (~Has(Self.people, X) /\ ~Has(Self.marriages, X)) =>
                 (r.err = "Node not found" /\ After(r) = World)
            /\ r.err = "ok" =>
                 LET again == delete_node(After(r), "self", X)
                 IN  again.err = "Node not found" /\ After(again) = After(r)

\* C10 witness: a node that was deleted before has been deleted again,
\* which failed, in a tree that is not empty.
C10_Witness ==
    /\ last.op = "delete_node"
    /\ last.err = "Node not found"
    /\ last.args[1] # Unknown
    /\ Self.people # <<>>

\* has some marriage of the tree an edge from each of the two spouses?
HasCommonMarriage(T, s1, s2) ==
    \E id \in Keys(T.marriages) : HasEdgeFrom(T, s1, id) /\ HasEdgeFrom(T, s2, id)

\* C11: when no marriage of the tree has edges from both given spouse ids,
\* update_marriage returns None, raises nothing, and leaves the people, the
\* marriages with their children lists and the edges as they were.
C11_NoCommonMarriageNoOp ==
    \A s1 \in PersonIds("self"), s2 \in PersonIds("self") :
        ~HasCommonMarriage(Self, s1, s2) =>
            \A children \in ChildrenArgs(PersonIds("self")) :
                LET r == update_marriage(World, "self", s1, s2, children)
                IN  /\ r.ret = None
                    /\ r.err = "ok"
                    /\ After(r) = World

\* C11 witness: update_marriage has just returned None in a tree that holds
\* a marriage with a spouse and a second person who is not in it.
C11_Witness ==
    /\ last.op = "update_marriage"
    /\ last.ret = None
    /\ last.err = "ok"
    /\ \E id \in Keys(Self.marriages), s1 \in Keys(Self.people), s2 \in Keys(Self.people) :
         /\ HasEdgeFrom(Self, s1, id)
         /\ ~HasCommonMarriage(Self, s1, s2)

\* the fixed gender rank MALE < FEMALE < OTHER
GenderRank(gender) ==
    CASE gender = MALE -> 0
      [] gender = FEMALE -> 1
      [] gender = GENDER_OTHER -> 2

\* the composite key: gender rank, then birth year, then name
CompositeKey(person) ==
    <<GenderRank(person.gender), person.birth_year, NameRank(person.name)>>

\* the first person strictly exceeds the second on the composite key
Exceeds(p1, p2) == TupleLess(CompositeKey(p2), CompositeKey(p1))

\* two entries of the people mapping whose persons are equal on the whole key
EqualOnKey(T) ==
    \E i, j \in DOMAIN T.people :
        i # j /\ CompositeKey(P[T.people[i][2]]) = CompositeKey(P[T.people[j][2]])

\* C12: after sort() no person of the people mapping strictly exceeds the
\* next one on the composite key (gender rank MALE < FEMALE < OTHER, then
\* birth year, then name), and a second sort() leaves the order of the first,
\* also when several people are equal on the whole key.
C12_SortedAndIdempotent ==
    LET once == sort(World, "self")
        twice == sort(After(once), "self")
        people == once.trees["self"].people
    IN  /\ \A i \in DOMAIN people :
             i < Len(people) => ~Exceeds(once.P[people[i][2]], once.P[people[i + 1][2]])
        /\ twice.trees["self"].people = people
        /\ After(twice) = After(once)

\* C12 witness: sort() has just moved a person in front of one created
\* earlier, in a mapping where two people are equal on the whole key.
C12_Witness ==
    /\ last.op = "sort"
    /\ EqualOnKey(Self)
    /\ \E i, j \in DOMAIN Self.people : i < j /\ Self.people[i][1] > Self.people[j][1]
    /\ \E i, j \in DOMAIN Self.people :
         P[Self.people[i][2]].gender # P[Self.people[j][2]].gender

\* the (identifier, record) entries of a mapping, whatever their order
Entries(d, heap) == {<<d[i][1], heap[d[i][2]]>> : i \in DOMAIN d}

\* C13: sort() changes only the iteration order of the people mapping: the
\* set of (identifier, person record) entries, the marriages with their
\* children lists and the edge set are the same before and after.
C13_SortKeepsContent ==
    LET r == sort(World, "self")
        R == r.trees["self"]
    IN  /\ Entries(R.people, r.P) = Entries(Self.people, P)
        /\ Len(R.people) = Len(Self.people)
        /\ Keys(R.people) = Keys(Self.people)
        /\ \A id \in Keys(Self.people) : At(R.people, id) = At(Self.people, id)
        /\ r.P = P
        /\ R.marriages = Self.marriages
        /\ r.M = M
        /\ R.edges = Self.edges
        /\ r.err = "ok"

\* C13 witness: sort() has just moved a person in front of one created
\* earlier, in a tree that holds edges and a marriage with a child.
C13_Witness ==
    /\ last.op = "sort"
    /\ \E i, j \in DOMAIN Self.people : i < j /\ Self.people[i][1] > Self.people[j][1]
    /\ Self.edges # {}
    /\ \E r \in Values(Self.marriages) : M[r].children # <<>>

\* is an optional year absent, or zero?
Unset(arg) == arg = None \/ arg = Some(0)

\* the year a field holds after an update: the prior value when the argument
\* is absent or zero, the argument otherwise
NewValue(arg, prior) == IF Unset(arg) THEN prior ELSE Get(arg)

\* the person a successful update_person(gender, birth_year, death_year)
\* leaves: the name kept, the gender given if there is one, each year as
\* NewValue says
UpdatedPerson(person, gender, birth_year, death_year) ==
    Person(person.name,
           IF gender = None THEN person.gender ELSE Get(gender),
           NewValue(birth_year, person.birth_year),
           IF Unset(death_year) THEN person.death_year ELSE death_year)

\* the memory after a call differs from W in the one Person object ref, which
\* is now the given person
OnlyPersonChanged(W, r, ref, person) ==
    /\ r.trees = W.trees
    /\ r.M = W.M
    /\ DOMAIN r.P = DOMAIN W.P
    /\ r.P[ref] = person
    /\ \A x \in DOMAIN W.P \ {ref} : r.P[x] = W.P[x]

\* C14: update_person without a person id resolves by exact name: with no
\* person of that name it fails with "Person not found", with more than one
\* it fails with "Multiple people found", and both failures change no
\* person, marriage or edge; with exactly one match that person and no other
\* is updated.
C14_UpdateByName ==
    \A k \in ByName, u \in UpdateArgs :
        LET r == update_person(World, "self", k[1], u[1], u[2], u[3], k[2])
            matches == {i \in DOMAIN Self.people : P[Self.people[i][2]].name = k[1]}
        IN  /\ matches = {} => (r.err = "Person not found" /\ After(r) = World)
            /\ Cardinality(matches) > 1 =>
                 (r.err = "Multiple people found" /\ After(r) = World)
            /\ Cardinality(matches) = 1 =>
                 LET e == Self.people[CHOOSE i \in matches : TRUE]
                 IN  /\ r.err = "ok"
                     /\ r.ret = Some(e)
                     /\ OnlyPersonChanged(World, r, e[2],
                                          UpdatedPerson(P[e[2]], u[1], u[2], u[3]))

\* C14 witness: update_person by name has just failed because two people
\* share the name, while no person has the other name.
C14_Witness ==
    /\ last.op = "update_person"
    /\ last.err = "Multiple people found"
    /\ \E k \in ByName : \A i \in DOMAIN Self.people : P[Self.people[i][2]].name # k[1]

\* every (gender, birth_year, death_year) of absent, zero and other values
FieldArgs ==
    {<<g, b, d>> : g \in {None} \cup {Some(x) : x \in Gender},
                   b \in {None, Some(0), Some(1952)},
                   d \in {None, Some(0), Some(1990)}}

\* C15: update_person with a person id given changes only that person's
\* gender, birth year and death year: each whose argument is absent or zero
\* keeps its prior value, each other argument becomes the new value, and the
\* person's name, every other person, the marriages and the edges stay.
C15_UpdateById ==
    \A k \in ById(Keys(Self.people)), u \in FieldArgs :
        LET r == update_person(World, "self", k[1], u[1], u[2], u[3], k[2])
            e == <<Get(k[2]), At(Self.people, Get(k[2]))>>
        IN  /\ r.err = "ok"
            /\ r.ret = Some(e)
            /\ r.P[e[2]].name = P[e[2]].name
            /\ OnlyPersonChanged(World, r, e[2], UpdatedPerson(P[e[2]], u[1], u[2], u[3]))

\* C15 witness: update_person has just set the gender of one of two people
\* and, given a birth year of zero, kept the birth year, in a tree with edges.
C15_Witness ==
    /\ last.op = "update_person"
    /\ last.err = "ok"
    /\ Len(Self.people) >= 2
    /\ Self.edges # {}
    /\ P[Get(last.ret)[2]].gender = GENDER_OTHER
    /\ P[Get(last.ret)[2]].birth_year # 0

\* every identifier a tree mentions: its nodes, the ends of its edges and
\* the children of its marriages
Mentioned(W, T) ==
    NodeIds(T) \cup {e.source : e \in T.edges} \cup {e.target : e \in T.edges}
        \cup UNION {{W.M[r].children[c] : c \in DOMAIN W.M[r].children} :
                    r \in Values(T.marriages)}

\* a children argument: absent, the empty list, or one child
FewChildren(ids) == {None, Some(<<>>)} \cup {Some(<<c>>) : c \in ids}

\* the children a marriage holds when made with the given argument
GivenChildren(children) == IF children = None THEN <<>> ELSE Get(children)

\* the call added one marriage, under id, with the given children and the
\* edges from s1 and s2 to it, and nothing else changed
AddedMarriage(W, r, id, s1, s2, children) ==
    LET T == W.trees["self"]
        R == r.trees["self"]
        ref == Get(r.ret)[2]
    IN  /\ r.err = "ok"
        /\ Get(r.ret)[1] = id
        /\ id \notin Mentioned(W, T)
        /\ R.marriages = Append(T.marriages, <<id, ref>>)
        /\ ref \notin DOMAIN W.M
        /\ r.M[ref] = Marriage(GivenChildren(children))
        /\ \A x \in DOMAIN W.M : r.M[x] = W.M[x]
        /\ DOMAIN r.M = DOMAIN W.M \cup {ref}
        /\ R.edges = T.edges \cup {Edge(s1, id), Edge(s2, id)}
        /\ R.people = T.people
        /\ r.P = W.P

\* C16: create_marriage(s1, s2, children) adds exactly one marriage, under
\* an identifier not in the graph before, holding exactly the given children
\* (none by default), adds the edges s1 -> marriage and s2 -> marriage, and
\* leaves the people and the marriages and edges there before unchanged; a
\* second call with the same spouse pair adds a second, distinct marriage.
C16_CreateMarriageAdds ==
    \A s1 \in PersonIds("self"), s2 \in PersonIds("self"),
       children \in FewChildren(PersonIds("self")) :
        LET r1 == create_marriage(World, "self", nextId, s1, s2, children)
            r2 == create_marriage(After(r1), "self", nextId + r1.drawn, s1, s2, children)
        IN  /\ AddedMarriage(World, r1, nextId, s1, s2, children)
            /\ Get(r2.ret)[1] # Get(r1.ret)[1]
            /\ Get(r2.ret)[2] # Get(r1.ret)[2]
            /\ r2.trees["self"].marriages =
                 Self.marriages \o <<Get(r1.ret), Get(r2.ret)>>
            /\ r2.M[Get(r1.ret)[2]] = r2.M[Get(r2.ret)[2]]
            /\ SourcesOf(r2.trees["self"], Get(r1.ret)[1]) = {s1, s2}
            /\ SourcesOf(r2.trees["self"], Get(r2.ret)[1]) = {s1, s2}

\* C16 witness: create_marriage has just made a marriage of two different
\* people with a child, and a second call with the same two spouses would
\* make another marriage with the same spouses.
C16_Witness ==
    /\ last.op = "create_marriage"
    /\ LET id == Get(last.ret)[1]
           spouses == SourcesOf(Self, id)
       IN  /\ Cardinality(spouses) = 2
           /\ M[Get(last.ret)[2]].children # <<>>
           /\ \E s1 \in spouses, s2 \in spouses :
                LET r == create_marriage(World, "self", nextId, s1, s2, None)
                IN  /\ s1 # s2
                    /\ Get(r.ret)[1] # id
                    /\ SourcesOf(r.trees["self"], Get(r.ret)[1]) = spouses
                    /\ SourcesOf(r.trees["self"], id) = spouses

\* the content of a tree: its people and marriages as sets of (identifier,
\* record) and its edge set
Content(W, T) ==
    [people |-> Entries(T.people, W.P),
     marriages |-> Entries(T.marriages, W.M),
     edges |-> T.edges]

Mutations(W, t) ==
    LET ids == Keys(W.trees[t].people)
    IN  {update_person(W, t, k[1], u[1], u[2], u[3], k[2]) :
            k \in ById(ids), u \in UpdateArgs}
        \cup {update_marriage(W, t, s1, s2, None) : s1 \in ids, s2 \in ids}
        \cup {delete_node(W, t, id) : id \in NodeIds(W.trees[t])}

\* the fields of a tree's people and the children lists of its marriages
Records(W, t) ==
    [people |-> Entries(W.trees[t].people, W.P),
     marriages |-> Entries(W.trees[t].marriages, W.M)]

\* C18: after receiver.merge(other) the two trees stay independent: a later
\* update_person, update_marriage or delete_node on the receiver leaves the
\* fields of other's people and the children lists of other's marriages
\* unchanged, and a later mutation of other leaves the receiver's unchanged.
C18_IndependentAfterMerge ==
    \A receiver \in Trees : \A other \in Trees \ {receiver} :
        LET merged == After(merge(World, receiver, other))
        IN  /\ \A r \in Mutations(merged, receiver) :
                 Records(After(r), other) = Records(merged, other)
            /\ \A r \in Mutations(merged, other) :
                 Records(After(r), receiver) = Records(merged, receiver)

\* C19: update_marriage(s1, s2, ...) returns a marriage, not None, exactly
\* when some marriage of the tree has an edge from s1 and an edge from s2,
\* whatever the number and the iteration order of the marriages.
C19_ReturnsIffCommonMarriage ==
    \A order \in Orders(Self.marriages) :
        LET W == [World EXCEPT !.trees["self"].marriages = order]
        IN  \A s1 \in PersonIds("self"), s2 \in PersonIds("self") :
                LET r == update_marriage(W, "self", s1, s2, None)
                IN  /\ r.err = "ok"
                    /\ (r.ret # None) = HasCommonMarriage(Self, s1, s2)

\* C19 witness: update_marriage has just returned a marriage in a tree
\* where two spouses share a marriage that is not the first of the mapping.
C19_Witness ==
    /\ last.op = "update_marriage"
    /\ last.ret # None
    /\ Len(Self.marriages) >= 2
    /\ \E s1 \in PersonIds("self"), s2 \in PersonIds("self") :
         /\ HasCommonMarriage(Self, s1, s2)
         /\ ~HasEdgeFrom(Self, s1, Self.marriages[1][1])

\* a list without the entries equal to x, the others in their order
RECURSIVE Without(_, _)
Without(list, x) ==
    IF list = <<>> THEN <<>>
    ELSE IF list[1] = x THEN Without(Tail(list), x)
    ELSE <<list[1]>> \o Without(Tail(list), x)

\* the identifiers of a mapping, in its order, and the same list reversed
KeySeq(d) == [i \in DOMAIN d |-> d[i][1]]
Reverse(list) == [i \in DOMAIN list |-> list[Len(list) + 1 - i]]

\* memory W, and W with one more marriage whose children are all the people
\* of the tree, listed in the mapping's order or in the reverse order
WithFamily(W) ==
    LET ids == KeySeq(W.trees["self"].people)
    IN  {W} \cup {After(create_marriage(W, "self", nextId, Unknown, Unknown, Some(c))) :
                    c \in {ids, Reverse(ids)}}

\* delete_node(X) on memory W removes X and the references to X, and
\* nothing else
DeletesOnly(W, X) ==
    LET T == W.trees["self"]
        r == delete_node(W, "self", X)
        R == r.trees["self"]
    IN  r.err = "ok" =>
          /\ KeySeq(R.people) = Without(KeySeq(T.people), X)
          /\ KeySeq(R.marriages) = Without(KeySeq(T.marriages), X)
          /\ \A id \in Keys(R.people) :
               /\ At(R.people, id) = At(T.people, id)
               /\ r.P[At(R.people, id)] = W.P[At(T.people, id)]
          /\ \A id \in Keys(R.marriages) :
               /\ At(R.marriages, id) = At(T.marriages, id)
               /\ r.M[At(R.marriages, id)].children =
                    Without(W.M[At(T.marriages, id)].children, X)
          /\ \A e \in T.edges : (e.source # X /\ e.target # X) => e \in R.edges
          /\ R.edges \subseteq T.edges

\* C20: a successful delete_node(X) removes nothing but X and the references
\* to X: every other person and marriage remains under its identifier with
\* its fields, every edge with neither end equal to X remains, and every
\* remaining marriage's children list keeps its entries other than X in
\* their prior order.
C20_DeleteRemovesOnlyX ==
    \A W \in WithFamily(World) :
        \A X \in NodeIds(W.trees["self"]) : DeletesOnly(W, X)

\* C20 witness: a node has just been deleted from a tree that keeps a
\* person, an edge and a marriage with a child.
C20_Witness ==
    /\ last.op = "delete_node"
    /\ last.err = "ok"
    /\ last.args[1] # Unknown
    /\ Self.people # <<>>
    /\ \E i \in DOMAIN Self.marriages :
         /\ M[Self.marriages[i][2]].children # <<>>
         /\ SourcesOf(Self, Self.marriages[i][1]) # {}

====
